---- MODULE Spec2Model ----
(***************************************************************************)
(* A model of app.py, the Streamlit script "SDR Prep Gem": one form, one   *)
(* blocking POST to the Gemini API (call_gemini), a keyword lookup         *)
(* (get_customer_reference) and the rendering of the briefing.             *)
(*                                                                         *)
(* Python strings whose characters matter (the use case, the persona name, *)
(* the opening statements) are sequences of one-character strings, so that *)
(* str.lower, the `in` operator and str.replace are computed character by  *)
(* character.  Text that the script only copies is a TLA+ string.          *)
(***************************************************************************)
EXTENDS Integers, Sequences, FiniteSets, TLC

VARIABLES
    secrets,        \* st.secrets: the set of keys configured for the process
    pc,             \* position of the script run for the current submission
    form_data,      \* the record packaged at lines 129-136
    submissions,    \* number of form submissions so far
    httpCalls,      \* requests.post calls made for the current submission
    response,       \* what requests.post produced for the current submission
    ai_data,        \* the value call_gemini returned (line 139)
    display,        \* the elements the current run has put on the page, in order
    use_case,       \* argument of get_customer_reference
    reference,      \* its return value
    refPc,          \* "input" before the call, "done" after
    persona_name,   \* form_data['personaName'] of the statement substitution
    opener,         \* one entry of ai_data['openingStatements']
    statement,      \* the local variable `statement` of line 168
    subPc           \* "input" before line 168, "done" after

pipelineVars == <<secrets, pc, form_data, submissions, httpCalls, response, ai_data, display>>
refVars == <<use_case, reference, refPc>>
subVars == <<persona_name, opener, statement, subPc>>
vars == <<secrets, pc, form_data, submissions, httpCalls, response, ai_data, display,
          use_case, reference, refPc, persona_name, opener, statement, subPc>>

----------------------------------------------------------------------------
(* Bounds of the model *)

MaxSubmissions == 2
MaxQuestions == 2
MaxOpeners == 2
MaxFragments == 3
MaxParts == 2

----------------------------------------------------------------------------
(* Character strings *)

Upper == <<"A","B","C","D","E","F","G","H","I","J","K","L","M","N","O","P","Q","R","S","T","U","V","W","X","Y","Z">>
Lower == <<"a","b","c","d","e","f","g","h","i","j","k","l","m","n","o","p","q","r","s","t","u","v","w","x","y","z">>

KwApplication == <<"a","p","p","l","i","c","a","t","i","o","n">>
KwAi == <<"a","i">>
KwMl == <<"m","l">>
KwFinance == <<"f","i","n","a","n","c","e">>

TokPersonaName == <<"[","P","e","r","s","o","n","a"," ","N","a","m","e","]">>
TokSdrName == <<"[","S","D","R"," ","N","a","m","e","]">>
YourName == <<"[","Y","o","u","r"," ","N","a","m","e","]">>

\* The four sentences get_customer_reference can return, named by the customer.
RefInstacart == "Instacart built their data-intensive applications on Snowflake, allowing them to scale to millions of users while reducing their infrastructure costs by 30%."
RefWesternUnion == "Western Union leveraged Snowflake to reduce the development time for their fraud detection models by 75% and can now deploy new AI models in days instead of months."
RefBlackRock == "BlackRock runs its Aladdin platform on Snowflake, processing trillions of dollars in financial transactions and providing clients with near real-time investment insights."
RefCapitalOne == "Capital One modernized their data stack with Snowflake to enable better customer experiences and faster innovation, all within a secure and governed environment."

\* str.lower() on one character (ASCII letters; every other character is kept).
LowerChar(c) ==
    IF \E i \in 1..Len(Upper) : Upper[i] = c
    THEN Lower[CHOOSE i \in 1..Len(Upper) : Upper[i] = c]
    ELSE c

\* str.lower()
lower(s) == [i \in 1..Len(s) |-> LowerChar(s[i])]

\* Python's `sub in s` for strings.
Contains(s, sub) ==
    \E i \in 0..(Len(s) - Len(sub)) : SubSeq(s, i + 1, i + Len(sub)) = sub

\* str.replace(old, new) for a non-empty `old`: occurrences are found left to
\* right and do not overlap; the replacement text is not searched again.
RECURSIVE Replace(_, _, _)
Replace(s, old, new) ==
    IF Len(s) < Len(old) THEN s
    ELSE IF SubSeq(s, 1, Len(old)) = old
         THEN new \o Replace(SubSeq(s, Len(old) + 1, Len(s)), old, new)
         ELSE <<Head(s)>> \o Replace(Tail(s), old, new)

\* Concatenations of at most n members of the set of strings `frags`.
RECURSIVE Concats(_, _)
Concats(frags, n) ==
    IF n = 0 THEN {<<>>}
    ELSE LET shorter == Concats(frags, n - 1)
         IN  shorter \cup {f \o s : f \in frags, s \in shorter}

\* Sequences of length at most n over the set S.
SeqsUpTo(S, n) == UNION {[1..k -> S] : k \in 0..n}

----------------------------------------------------------------------------
(* get_customer_reference *)

\* A mutation: the AI/ML branch is tested before the "application" branch.
get_customer_reference_AiFirst(use_case_arg) ==
    LET lower_case == lower(use_case_arg)
    IN  IF Contains(lower_case, KwAi) \/ Contains(lower_case, KwMl) THEN RefWesternUnion
        ELSE IF Contains(lower_case, KwApplication) THEN RefInstacart
        ELSE IF Contains(lower_case, KwFinance) THEN RefBlackRock
        ELSE RefCapitalOne

get_customer_reference(use_case_arg) ==
    LET lower_case == lower(use_case_arg)
    IN  IF Contains(lower_case, KwApplication) THEN RefInstacart
        ELSE IF Contains(lower_case, KwAi) \/ Contains(lower_case, KwMl) THEN RefWesternUnion
        ELSE IF Contains(lower_case, KwFinance) THEN RefBlackRock
        ELSE RefCapitalOne

----------------------------------------------------------------------------
(* The opening-statement substitution of line 168 *)

SubstitutePlaceholders(stmt, personaName) ==
    Replace(Replace(stmt, TokPersonaName, personaName), TokSdrName, YourName)

----------------------------------------------------------------------------
(* The form (lines 111-136) *)

JaneDoe == <<"J","a","n","e"," ","D","o","e">>
UcAiRiskModels == <<"A","I"," ","r","i","s","k"," ","m","o","d","e","l","s">>
UcGeneralProductivity == <<"g","e","n","e","r","a","l"," ","p","r","o","d","u","c","t","i","v","i","t","y">>
StmtExample == <<"H","i"," ","[","P","e","r","s","o","n","a"," ","N","a","m","e","]",","," ","t","h","i","s"," ","i","s"," ","[","S","D","R"," ","N","a","m","e","]",".">>
StmtGreeting == <<"H","i"," ","[","P","e","r","s","o","n","a"," ","N","a","m","e","]","!">>

\* The records the form can submit: any text in the text inputs, one of the
\* two radio values as status.
Forms ==
    [personaName : {JaneDoe, TokSdrName},
     title : {"VP of Engineering"},
     accountName : {"InnovateFin"},
     status : {"Prospect", "Customer"},
     linkedinInfo : {"", "Recently promoted."},
     supportingInfo : {"Hiring data scientists."}]

NoForm ==
    [personaName |-> <<>>, title |-> "", accountName |-> "", status |-> "Prospect",
     linkedinInfo |-> "", supportingInfo |-> ""]

----------------------------------------------------------------------------
(* JSON values that the text of the first candidate can parse to *)

Fields == {"justification", "useCase", "discoveryQuestions", "openingStatements"}

JsonValue(type, num, has, extra, j, u, q, o) ==
    [type |-> type, num |-> num, has |-> has, extra |-> extra,
     justification |-> j, useCase |-> u, discoveryQuestions |-> q, openingStatements |-> o]

\* Python's None, which is also what the JSON text `null` parses to.
None == JsonValue("null", 0, {}, FALSE, "", <<>>, <<>>, <<>>)

Justifications == {"New AI product announced."}
UseCases == {UcAiRiskModels, UcGeneralProductivity}
Questions == {"What metrics matter?", "Who signs off?"}
OpenerEntries ==
    {[type |-> "Insight", statement |-> StmtGreeting],
     [type |-> "Trigger", statement |-> StmtExample]}

\* JSON objects carrying any subset of the four fields of the response schema;
\* `extra` says that the object has some other key (only told apart here when
\* none of the four is present: {} against {"error": ...}).
JsonObjects ==
    {JsonValue("object", 0, has, extra /\ has = {},
               IF "justification" \in has THEN j ELSE "",
               IF "useCase" \in has THEN u ELSE <<>>,
               IF "discoveryQuestions" \in has THEN q ELSE <<>>,
               IF "openingStatements" \in has THEN o ELSE <<>>) :
        has \in SUBSET Fields, extra \in BOOLEAN, j \in Justifications, u \in UseCases,
        q \in SeqsUpTo(Questions, MaxQuestions), o \in SeqsUpTo(OpenerEntries, MaxOpeners)}

JsonNumbers == {JsonValue("number", n, {}, FALSE, "", <<>>, <<>>, <<>>) : n \in {0, 1}}

Payloads == {None} \cup JsonNumbers \cup JsonObjects

\* bool(v) as evaluated by `if ai_data:` (line 141).
Truthy(v) ==
    CASE v.type = "null" -> FALSE
      [] v.type = "number" -> v.num # 0
      [] v.type = "object" -> v.has # {} \/ v.extra

\* v[field] succeeds
HasField(v, field) == v.type = "object" /\ field \in v.has

----------------------------------------------------------------------------
(* What requests.post can produce (line 71) *)

\* exc:        the RequestException requests.post raises, or "none"
\* status:     the HTTP status of the response
\* jsonError:  the exception response.json() raises on a body that is not JSON
\*             ("none" when the body is JSON): requests >= 2.27 raises
\*             requests.exceptions.JSONDecodeError, a RequestException; older
\*             versions raise json.JSONDecodeError
\* envelope:   the parsed body: "object" or "null"
\* candidates: the 'candidates' entry of the object: "absent", "empty" or "list"
\* first:      whether candidates[0]['content']['parts'][0]['text'] exists
\* text:       that text: "notjson", or "json" and then `payload` is its value
Response(exc, status, jsonError, envelope, candidates, first, text, payload) ==
    [exc |-> exc, status |-> status, jsonError |-> jsonError, envelope |-> envelope,
     candidates |-> candidates, first |-> first, text |-> text, payload |-> payload]

NoResponse == Response("none", 0, "none", "null", "absent", "noText", "notjson", None)

TransportFailures == {"ConnectionError", "Timeout"}
ErrorStatuses == {404, 500}

Responses ==
    {Response(e, 0, "none", "null", "absent", "noText", "notjson", None) : e \in TransportFailures}
    \cup {Response("none", s, "none", "null", "absent", "noText", "notjson", None) : s \in ErrorStatuses}
    \cup {Response("none", 200, je, "null", "absent", "noText", "notjson", None) :
            je \in {"requests.JSONDecodeError", "json.JSONDecodeError"}}
    \cup {Response("none", 200, "none", "null", "absent", "noText", "notjson", None)}
    \cup {Response("none", 200, "none", "object", c, "noText", "notjson", None) :
            c \in {"absent", "empty", "list"}}
    \cup {Response("none", 200, "none", "object", "list", "text", "notjson", None)}
    \cup {Response("none", 200, "none", "object", "list", "text", "json", p) : p \in Payloads}

\* response.raise_for_status() raises HTTPError (line 72)
RaisesForStatus(status) == status >= 400 /\ status < 600

----------------------------------------------------------------------------
(* Page elements *)

El(kind, body) == [kind |-> kind, body |-> body]

ErrNoKey == "GEMINI_API_KEY not found in Streamlit Secrets."
ErrApiCallFailed == "Error: API call failed: "
ErrInvalidStructure == "Error: Invalid response structure from Gemini API."
ErrDecode == "Error: Failed to decode JSON from API response."

StError(msg, detail) == El("error", [msg |-> msg, detail |-> detail])

----------------------------------------------------------------------------
(* call_gemini (lines 13-89) *)

\* A mutation: the lookup of the key never fails.
HasApiKey_Always(s) == TRUE

\* st.secrets["GEMINI_API_KEY"] succeeds (lines 18-21)
HasApiKey(s) == "GEMINI_API_KEY" \in s

\* What call_gemini did: the value returned, the elements it put on the page,
\* and the class of the exception that left it uncaught ("none" if none did).
Outcome(ret, shown, raised) == [ret |-> ret, shown |-> shown, raised |-> raised]

NoDetail == [exc |-> "none", status |-> 0]

\* A mutation: the `except json.JSONDecodeError` clause is missing.
HandleException_NoDecodeClause(class, detail) ==
    CASE class = "RequestException" ->
            Outcome(None, <<StError(ErrApiCallFailed, detail)>>, "none")
      [] OTHER -> Outcome(None, <<>>, class)

\* The except clauses of the try block (lines 84-89), applied to an exception
\* of the given class raised inside it; any other class is not caught.
HandleException(class, detail) ==
    CASE class = "RequestException" ->
            Outcome(None, <<StError(ErrApiCallFailed, detail)>>, "none")
      [] class = "JSONDecodeError" ->
            Outcome(None, <<StError(ErrDecode, NoDetail)>>, "none")
      [] OTHER -> Outcome(None, <<>>, class)

\* A mutation: only the presence of the key is tested, not its value.
HasCandidates_KeyOnly(resp) == resp.candidates # "absent"

\* 'candidates' in result and result['candidates'] (line 76)
HasCandidates(resp) == resp.candidates = "list"

\* st.json(result): the raw envelope as displayed (line 81)
RawEnvelope(resp) == [envelope |-> resp.envelope, candidates |-> resp.candidates]

\* Lines 70-89, given what requests.post produced.
call_gemini(resp) ==
    IF resp.exc # "none"
    THEN HandleException("RequestException", [exc |-> resp.exc, status |-> 0])
    ELSE IF RaisesForStatus(resp.status)
    THEN HandleException("RequestException", [exc |-> "HTTPError", status |-> resp.status])
    ELSE IF resp.jsonError = "requests.JSONDecodeError"
    THEN HandleException("RequestException", [exc |-> resp.jsonError, status |-> resp.status])
    ELSE IF resp.jsonError = "json.JSONDecodeError"
    THEN HandleException("JSONDecodeError", NoDetail)
    ELSE IF resp.envelope = "null"
    THEN HandleException("TypeError", NoDetail)          \* 'candidates' in None
    ELSE IF HasCandidates(resp)
    THEN IF resp.candidates # "list"
         THEN HandleException("IndexError", NoDetail)     \* result['candidates'][0]
         ELSE IF resp.first = "noText"
         THEN HandleException("KeyError", NoDetail)       \* [0]['content']['parts'][0]['text']
         ELSE IF resp.text = "notjson"
         THEN HandleException("JSONDecodeError", NoDetail) \* json.loads(raw_json)
         ELSE Outcome(resp.payload, <<>>, "none")
    ELSE Outcome(None, <<StError(ErrInvalidStructure, NoDetail), El("json", RawEnvelope(resp))>>,
                 "none")

\* An exception that leaves the script uncaught is shown on the page by Streamlit.
Uncaught(raised) == IF raised = "none" THEN <<>> ELSE <<El("exception", raised)>>

----------------------------------------------------------------------------
(* The rendering of the briefing (lines 142-176) *)

\* A mutation: the bullets are built from the distinct entries only.
RECURSIVE openers_text_Dedup(_, _)
openers_text_Dedup(openingStatements, personaName) ==
    IF openingStatements = <<>> THEN <<>>
    ELSE LET n == Len(openingStatements)
             last == openingStatements[n]
             front == SubSeq(openingStatements, 1, n - 1)
         IN  IF \E i \in 1..(n - 1) : openingStatements[i] = last
             THEN openers_text_Dedup(front, personaName)
             ELSE openers_text_Dedup(front, personaName)
                    \o <<[type |-> last.type,
                          statement |-> SubstitutePlaceholders(last.statement, personaName)]>>

\* The loop of lines 166-169: one bullet line per entry, in order.
openers_text(openingStatements, personaName) ==
    [i \in 1..Len(openingStatements) |->
        [type |-> openingStatements[i].type,
         statement |-> SubstitutePlaceholders(openingStatements[i].statement, personaName)]]

\* The loop of lines 173-175: one bullet line per question, in order.
questions_text(discoveryQuestions) ==
    [i \in 1..Len(discoveryQuestions) |-> [bullet |-> discoveryQuestions[i]]]

\* `x or 'Not provided.'` (lines 150-151)
OrNotProvided(x) == IF x = "" THEN "Not provided." ELSE x

\* The statements of the `if ai_data:` block in order: the element each one
\* puts on the page and the key of ai_data it reads first ("none" if none).
RenderSteps(form, ai) ==
    << [needs |-> "none", el |-> El("balloons", "")],
       [needs |-> "none", el |-> El("header", [persona |-> form.personaName,
                                               account |-> form.accountName])],
       [needs |-> "none", el |-> El("subheader", "1. At-a-Glance Intel")],
       [needs |-> "none", el |-> El("intel", [persona |-> form.personaName,
                                              title |-> form.title,
                                              account |-> form.accountName,
                                              status |-> form.status,
                                              linkedin |-> OrNotProvided(form.linkedinInfo),
                                              trigger |-> OrNotProvided(form.supportingInfo)])],
       [needs |-> "none", el |-> El("divider", "")],
       [needs |-> "none", el |-> El("subheader", "2. The 'Why You, Why Now'")],
       [needs |-> "justification", el |-> El("justification", ai.justification)],
       [needs |-> "useCase", el |-> El("useCase", ai.useCase)],
       [needs |-> "useCase", el |-> El("reference", get_customer_reference(ai.useCase))],
       [needs |-> "none", el |-> El("divider", "")],
       [needs |-> "none", el |-> El("subheader", "3. Conversation Toolkit")],
       [needs |-> "none", el |-> El("heading", "Powerful Opening Statements")],
       [needs |-> "openingStatements",
        el |-> El("openers", openers_text(ai.openingStatements, form.personaName))],
       [needs |-> "none", el |-> El("heading", "MEDDPICC Discovery Questions")],
       [needs |-> "discoveryQuestions",
        el |-> El("questions", questions_text(ai.discoveryQuestions))] >>

\* The block runs statement by statement; the first read of a key that ai_data
\* lacks raises (KeyError for a dict, TypeError for a value that is no dict),
\* and what was put on the page before stays there.
Render(form, ai) ==
    LET steps == RenderSteps(form, ai)
        failing == {i \in 1..Len(steps) :
                      steps[i].needs # "none" /\ ~HasField(ai, steps[i].needs)}
    IN  IF failing = {}
        THEN [shown |-> [i \in 1..Len(steps) |-> steps[i].el], raised |-> "none"]
        ELSE LET k == CHOOSE i \in failing : \A j \in failing : i <= j
             IN  [shown |-> [i \in 1..(k - 1) |-> steps[i].el],
                  raised |-> IF ai.type = "object" THEN "KeyError" ELSE "TypeError"]

----------------------------------------------------------------------------
(* The script run of one submission *)

Init ==
    /\ secrets \in {{}, {"GEMINI_API_KEY"}}
    /\ pc = "Idle"
    /\ form_data = NoForm
    /\ submissions = 0
    /\ httpCalls = 0
    /\ response = NoResponse
    /\ ai_data = None
    /\ display = <<>>
    /\ use_case = <<>> /\ reference = "" /\ refPc = "input"
    /\ persona_name = <<>> /\ opener = [type |-> "", statement |-> <<>>]
    /\ statement = <<>> /\ subPc = "input"

\* The form is submitted (line 127); the script packages the form data and
\* enters call_gemini: without the key it reports and stops (lines 18-23),
\* with it it sends the POST (line 71) and blocks.
Submit ==
    /\ pc = "Idle"
    /\ submissions < MaxSubmissions
    /\ \E f \in Forms : form_data' = f
    /\ submissions' = submissions + 1
    /\ response' = NoResponse
    /\ ai_data' = None
    /\ IF HasApiKey(secrets)
       THEN /\ httpCalls' = 1
            /\ display' = <<>>
            /\ pc' = "Requesting"
       ELSE /\ httpCalls' = 0
            /\ display' = <<StError(ErrNoKey, NoDetail)>>
            /\ pc' = "Stopped"
    /\ UNCHANGED <<secrets, refVars, subVars>>

\* A mutation: a failed call is sent once more.
RespondWithRetry ==
    /\ pc = "Requesting"
    /\ \E r \in Responses :
         LET out == call_gemini(r)
         IN  /\ response' = r
             /\ ai_data' = out.ret
             /\ IF (r.exc # "none" \/ RaisesForStatus(r.status)) /\ httpCalls < 2
                THEN /\ httpCalls' = httpCalls + 1
                     /\ display' = display
                     /\ pc' = "Requesting"
                ELSE /\ httpCalls' = httpCalls
                     /\ display' = display \o out.shown \o Uncaught(out.raised)
                     /\ pc' = IF out.shown = <<>> /\ out.raised = "none"
                              THEN "Success" ELSE "Failed"
    /\ UNCHANGED <<secrets, form_data, submissions, refVars, subVars>>

\* requests.post returns or raises, and call_gemini runs to its end
\* (lines 71-89); line 139 assigns what it returned.
Respond ==
    /\ pc = "Requesting"
    /\ \E r \in Responses :
         LET out == call_gemini(r)
         IN  /\ response' = r
             /\ ai_data' = out.ret
             /\ display' = display \o out.shown \o Uncaught(out.raised)
             /\ pc' = IF out.shown = <<>> /\ out.raised = "none" THEN "Success" ELSE "Failed"
    /\ UNCHANGED <<secrets, form_data, submissions, httpCalls, refVars, subVars>>

\* call_gemini returned without reporting anything: `if ai_data:` (line 141)
\* and, when it holds, the block of lines 142-176; otherwise the script ends.
MainLogic ==
    /\ pc = "Success"
    /\ IF Truthy(ai_data)
       THEN LET r == Render(form_data, ai_data)
            IN  /\ display' = display \o r.shown \o Uncaught(r.raised)
                /\ pc' = IF r.raised = "none" THEN "Rendered" ELSE "Failed"
       ELSE /\ display' = display
            /\ pc' = "Idle"
    /\ UNCHANGED <<secrets, form_data, submissions, httpCalls, response, ai_data,
                   refVars, subVars>>

\* The script run is over; the page stays as it is until the next submission.
Finish ==
    /\ pc \in {"Failed", "Stopped", "Rendered"}
    /\ pc' = "Idle"
    /\ UNCHANGED <<secrets, form_data, submissions, httpCalls, response, ai_data, display,
                   refVars, subVars>>

Next == Submit \/ Respond \/ MainLogic \/ Finish

Spec == Init /\ [][Next]_vars

----------------------------------------------------------------------------
(* get_customer_reference applied to bounded use-case strings *)

UcAiPoweredApplications == <<"A","I","-","p","o","w","e","r","e","d"," ","a","p","p","l","i","c","a","t","i","o","n","s">>

\* Pieces of use-case text: the keywords in both cases, and single letters
\* that spell a keyword only across a boundary or inside another word.
RefFragments ==
    {KwApplication,
     <<"A","p","p","l","i","c","a","t","i","o","n">>,
     <<"A","I">>,
     KwMl,
     <<"F","i","n","a","n","c","e">>,
     <<"a">>, <<"i">>, <<"M">>, <<"l">>, <<" ">>}

RefInputs ==
    Concats(RefFragments, MaxFragments)
        \cup {UcAiPoweredApplications, UcGeneralProductivity, UcAiRiskModels}

InitRef ==
    /\ secrets = {"GEMINI_API_KEY"}
    /\ pc = "Idle"
    /\ form_data = NoForm
    /\ submissions = 0
    /\ httpCalls = 0
    /\ response = NoResponse
    /\ ai_data = None
    /\ display = <<>>
    /\ use_case \in RefInputs /\ reference = "" /\ refPc = "input"
    /\ persona_name = <<>> /\ opener = [type |-> "", statement |-> <<>>]
    /\ statement = <<>> /\ subPc = "input"

\* The call of line 159.
LookupReference ==
    /\ refPc = "input"
    /\ reference' = get_customer_reference(use_case)
    /\ refPc' = "done"
    /\ UNCHANGED <<use_case, pipelineVars, subVars>>

NextRef == LookupReference

SpecRef == InitRef /\ [][NextRef]_vars

----------------------------------------------------------------------------
(* The statement substitution applied to bounded statements and names *)

FragHi == <<"H","i"," ">>
FragSdrOpen == <<"[","S","D","R">>
FragNameClose == <<" ","N","a","m","e","]">>

SubPersonas == {JaneDoe, TokSdrName, TokPersonaName, FragSdrOpen, <<>>}

SubStatements ==
    Concats({FragHi, TokPersonaName, TokSdrName, FragNameClose, YourName, <<".">>}, MaxParts)
        \cup {StmtExample, StmtGreeting}

InitSub ==
    /\ secrets = {"GEMINI_API_KEY"}
    /\ pc = "Idle"
    /\ form_data = NoForm
    /\ submissions = 0
    /\ httpCalls = 0
    /\ response = NoResponse
    /\ ai_data = None
    /\ display = <<>>
    /\ use_case = <<>> /\ reference = "" /\ refPc = "input"
    /\ persona_name \in SubPersonas
    /\ opener \in [type : {"Insight"}, statement : SubStatements]
    /\ statement = <<>> /\ subPc = "input"

\* Line 168.
Substitute ==
    /\ subPc = "input"
    /\ statement' = SubstitutePlaceholders(opener.statement, persona_name)
    /\ subPc' = "done"
    /\ UNCHANGED <<persona_name, opener, pipelineVars, refVars>>

NextSub == Substitute

SpecSub == InitSub /\ [][NextSub]_vars

----------------------------------------------------------------------------
(* Vocabulary of the properties *)

Kinds(d) == [i \in 1..Len(d) |-> d[i].kind]

Shows(kind) == \E i \in 1..Len(display) : display[i].kind = kind

RenderKinds ==
    {"balloons", "header", "subheader", "intel", "divider", "justification", "useCase",
     "reference", "heading", "openers", "questions"}

\* Some part of the briefing (header or section) is on the page.
RendererRan == \E i \in 1..Len(display) : display[i].kind \in RenderKinds

\* An error message is on the page: one the script reports with st.error, or
\* the exception box Streamlit shows for an exception nobody caught.
ErrorShown == Shows("error") \/ Shows("exception")

\* The header and the four sections, complete and in their order.
BriefingKinds ==
    <<"balloons", "header",
      "subheader", "intel", "divider",
      "subheader", "justification", "useCase", "reference", "divider",
      "subheader", "heading", "openers",
      "heading", "questions">>

FullBriefingShown == Kinds(display) = BriefingKinds

\* requests.post has returned or raised for the current submission.
Received == response # NoResponse

NetworkFailure(r) == r.exc # "none" \/ RaisesForStatus(r.status)

\* The body of a successful response is a JSON object.
EnvelopeReceived(r) == ~NetworkFailure(r) /\ r.jsonError = "none" /\ r.envelope = "object"

\* The text of the first candidate exists.
TextReceived(r) == EnvelopeReceived(r) /\ r.candidates = "list" /\ r.first = "text"

\* A value with all four fields of the response schema.
Complete(v) == v.type = "object" /\ Fields \subseteq v.has

\* Something went wrong at the Requesting stage: the network, the envelope,
\* the decoding of the embedded text, or a payload that lacks a field.
RequestFailure(r) == ~(TextReceived(r) /\ r.text = "json" /\ Complete(r.payload))

----------------------------------------------------------------------------
(* C1 *)

\* C1: whenever a submission met a failure at the Requesting stage (network
\* failure, malformed envelope, undecodable or incomplete payload), the run
\* is in the Failed state (or over), an error is on the page, and no part of
\* the briefing is on the page.
C1_FailureRendersNothing ==
    (Received /\ RequestFailure(response) /\ pc \in {"Failed", "Rendered", "Idle"})
        => /\ pc \in {"Failed", "Idle"}
           /\ ErrorShown
           /\ ~RendererRan

(* C2 *)

\* C2: whenever the renderer has run, the value it was given was parsed from
\* the embedded text and has all four required fields.
C2_RendererGetsCompleteResult ==
    RendererRan
        => /\ TextReceived(response) /\ response.text = "json"
           /\ ai_data = response.payload
           /\ Complete(ai_data)

(* C3 *)

\* C3: when the API key is absent, a submission shows the configuration
\* error and nothing else, stops the run, sends no HTTP request and never
\* runs the renderer.
C3_MissingKeyHalts ==
    (submissions > 0 /\ "GEMINI_API_KEY" \notin secrets)
        => /\ httpCalls = 0
           /\ response = NoResponse
           /\ pc \in {"Stopped", "Idle"}
           /\ Kinds(display) = <<"error">>
           /\ display[1].body.msg = ErrNoKey
           /\ ~RendererRan

C3_Witness ==
    /\ submissions > 0
    /\ "GEMINI_API_KEY" \notin secrets
    /\ pc = "Stopped"
    /\ httpCalls = 0

(* C4 *)

\* C4: when the run of a submission is over, the page shows exactly one of:
\* the complete briefing in order, or an error message.
C4_SectionsOrError ==
    (pc = "Idle" /\ submissions > 0)
        => \/ FullBriefingShown /\ ~ErrorShown
           \/ ErrorShown /\ ~FullBriefingShown

(* C5 *)

C6_UndecodableText ==
    (Received /\ TextReceived(response) /\ response.text = "notjson")
        => /\ Kinds(display) = <<"error">>
           /\ display[1].body.msg = ErrDecode
           /\ display[1].body.msg \notin {ErrApiCallFailed, ErrInvalidStructure, ErrNoKey}
           /\ ai_data = None
           /\ pc \in {"Failed", "Idle"}
           /\ ~RendererRan

C6_Witness ==
    /\ Received /\ TextReceived(response)
    /\ response.text = "notjson"
    /\ pc = "Idle"
    /\ display[1].body.msg = ErrDecode

(* C7 *)

\* The detail of the RequestException a network failure raises.
FailureDetail(r) ==
    IF r.exc # "none" THEN [exc |-> r.exc, status |-> 0]
    ELSE [exc |-> "HTTPError", status |-> r.status]

C7_Inv ==
    /\ httpCalls <= 1
    /\ (Received /\ NetworkFailure(response))
          => /\ httpCalls = 1
             /\ Kinds(display) = <<"error">>
             /\ display[1].body.msg = ErrApiCallFailed
             /\ display[1].body.detail = FailureDetail(response)
             /\ ai_data = None
             /\ pc \in {"Failed", "Idle"}

\* C7: a submission makes at most one POST; after a transport failure or a
\* non-success status the page shows the network error with the detail of the
\* failure, call_gemini returned None, and the only step left to the failed
\* run is the return to Idle, with no further request.
C7_SingleAttempt ==
    /\ []C7_Inv
    /\ [][pc = "Failed" => (pc' = "Idle" /\ httpCalls' = httpCalls /\ display' = display)]_vars

C7_Witness ==
    /\ Received
    /\ response.status = 500
    /\ pc = "Idle"
    /\ httpCalls = 1
    /\ display[1].body.detail = [exc |-> "HTTPError", status |-> 500]

(* C8 *)

\* c is the letter k, in either case
SameLetter(c, k) == c = k \/ \E n \in 1..Len(Lower) : Upper[n] = c /\ Lower[n] = k

\* The keyword occurs in the text, whatever the case of the letters.
Mentions(text, keyword) ==
    \E start \in 1..(Len(text) - Len(keyword) + 1) :
        \A j \in 1..Len(keyword) : SameLetter(text[start + j - 1], keyword[j])

\* C8: get_customer_reference returns the application reference if the use
\* case mentions "application"; otherwise the AI/ML reference if it mentions
\* "ai" or "ml"; otherwise the finance reference if it mentions "finance";
\* otherwise the default.  "AI-powered applications" gets the application
\* reference and "general productivity" the default.
C8_ReferencePriority ==
    refPc = "done"
        => /\ reference =
                (IF Mentions(use_case, KwApplication) THEN RefInstacart
                 ELSE IF Mentions(use_case, KwAi) \/ Mentions(use_case, KwMl)
                      THEN RefWesternUnion
                 ELSE IF Mentions(use_case, KwFinance) THEN RefBlackRock
                 ELSE RefCapitalOne)
           /\ (use_case = UcAiPoweredApplications => reference = RefInstacart)
           /\ (use_case = UcGeneralProductivity => reference = RefCapitalOne)

C8_Witness ==
    /\ refPc = "done"
    /\ use_case = UcAiPoweredApplications
    /\ reference = RefInstacart

(* C9 *)

\* The statement with every "[Persona Name]" replaced by the name and every
\* "[SDR Name]" of the statement replaced by "[Your Name]", in one pass over
\* the statement; the name is copied as it is.
RECURSIVE SubstitutedInOnePass(_, _)
SubstitutedInOnePass(stmt, name) ==
    IF stmt = <<>> THEN <<>>
    ELSE IF Len(stmt) >= Len(TokPersonaName) /\ SubSeq(stmt, 1, Len(TokPersonaName)) = TokPersonaName
    THEN name \o SubstitutedInOnePass(SubSeq(stmt, Len(TokPersonaName) + 1, Len(stmt)), name)
    ELSE IF Len(stmt) >= Len(TokSdrName) /\ SubSeq(stmt, 1, Len(TokSdrName)) = TokSdrName
    THEN YourName \o SubstitutedInOnePass(SubSeq(stmt, Len(TokSdrName) + 1, Len(stmt)), name)
    ELSE <<Head(stmt)>> \o SubstitutedInOnePass(Tail(stmt), name)

\* C9: for every persona name and statement, the rendered statement is the
\* statement with each "[Persona Name]" replaced by the name verbatim and
\* each "[SDR Name]" of the statement replaced by "[Your Name]".
C9_SubstitutionVerbatim ==
    subPc = "done" => statement = SubstitutedInOnePass(opener.statement, persona_name)

(* C10 *)

\* C10: after a successful submission the page shows the header and the
\* sections in their fixed order, and the bullets of the opening statements
\* and of the discovery questions are the entries of the lists of ai_data,
\* one bullet per entry, in the order of the list.
C10_ListsRenderedInOrder ==
    (Received /\ ~RequestFailure(response) /\ pc \in {"Rendered", "Idle"})
        => /\ Kinds(display) = BriefingKinds
           /\ LET bullets == display[13].body
                  entries == response.payload.openingStatements
              IN  /\ Len(bullets) = Len(entries)
                  /\ \A i \in 1..Len(entries) :
                        /\ bullets[i].type = entries[i].type
                        /\ bullets[i].statement =
                              SubstitutePlaceholders(entries[i].statement, form_data.personaName)
           /\ LET bullets == display[15].body
                  entries == response.payload.discoveryQuestions
              IN  /\ Len(bullets) = Len(entries)
                  /\ \A i \in 1..Len(entries) : bullets[i].bullet = entries[i]

C10_Witness ==
    /\ pc = "Rendered"
    /\ FullBriefingShown
    /\ Len(ai_data.openingStatements) = 2
    /\ ai_data.openingStatements[1] = ai_data.openingStatements[2]
    /\ Len(display[13].body) = 2
    /\ Len(ai_data.discoveryQuestions) = 2
    /\ ai_data.discoveryQuestions[1] = ai_data.discoveryQuestions[2]
    /\ Len(display[15].body) = 2

====
